---- MODULE Spec2Model ----
(***************************************************************************)
(* A model of gear's request dispatch (src/app.go): middleware             *)
(* registration, the three ways of starting the server, the non-blocking   *)
(* ServerListener handle, and serveHandler.ServeHTTP with its pooled       *)
(* Context.  Context and Response (context.go, response.go) are not among  *)
(* the source files; their operations are modelled from the specification  *)
(* and are marked as such where they are defined.                          *)
(*                                                                         *)
(* Text is a sequence of character codes, an error is a record             *)
(* [isNil, msg], and the identity of a request, of the response that       *)
(* belongs to it and of a Context is a positive number (0 is nil).         *)
(***************************************************************************)
EXTENDS Integers, Sequences, FiniteSets, TLC

\* Bounds of the model.
MaxChain == 2       \* how many middleware units are ever registered
NumReq == 2         \* how many requests the server ever accepts
NumWaiters == 2     \* how many callers ever call ServerListener.Wait

Requests == 1..NumReq
CtxIds == 1..NumReq   \* every pool.Get allocates at most one new Context
Waiters == 1..NumWaiters

VARIABLES
    \* Gear (app.go 65-76)
    middleware,     \* Gear.middleware: the registered units, in order
    onError,        \* Gear.OnError: "default" (New's hook) or "custom"
    errorLog,       \* Gear.ErrorLog: "nil" or "logger"
    handler,        \* Server.Handler's serveHandler.middleware; <<>> when unset
    pool,           \* Gear.pool: the Contexts that are in the pool
    nctx,           \* how many Contexts pool.New has created
    ctxs,           \* the fields of every Context
    log,            \* what reached the error-logging sink, in order
    \* the process that starts the server, and the ServerListener handle
    proc,           \* "setup", "blocking", "started", "returned", "panicked"
    listener,       \* "none", "open", "closed"
    serve,          \* Server.Serve and the goroutine around it
    serveErr,       \* what Server.Serve / ListenAndServe returned
    waitPc,         \* each caller of Wait: "idle", "waiting", "returned"
    waitRes,        \* what each Wait returned
    \* one serveHandler.ServeHTTP call per request
    pc,             \* the position of the call
    idx,            \* how many units of the chain the loop has invoked
    err,            \* the local variable err
    rctx,           \* the local variable ctx (0 before pool.Get)
    res,            \* the Response bound to the request
    \* history of each call, read by the properties only
    calls,          \* the units invoked, in order of invocation
    hooksRun,       \* the after-hooks run, in order
    nAfter,         \* how many times runAfterHooks was called
    nErrBody,       \* how many times the error body was written
    chainErr,       \* err when the loop over the chain was left
    statusIn,       \* Res.Status when the if at line 194 was reached
    nGet,           \* how many times the call did pool.Get
    nPut,           \* how many times the call did pool.Put
    putBound,       \* whether a Context the call Put still had a binding
    queued,         \* the after-hooks the units of the call queued, in order
    statusChain,    \* Res.Status when the loop over the chain was left
    onErrRec,       \* what OnError returned to the call (nil when not called)
    nFlush          \* how many times the call did Res.respond()

appVars == <<middleware, onError, errorLog, handler>>
poolVars == <<pool, nctx, ctxs>>
srvVars == <<proc, listener, serve, serveErr, waitPc, waitRes>>
reqVars == <<pc, idx, err, rctx, res>>
histVars == <<calls, hooksRun, nAfter, nErrBody, chainErr, statusIn, nGet, nPut, putBound,
              queued, statusChain, onErrRec, nFlush>>
vars == <<appVars, poolVars, log, srvVars, reqVars, histVars>>

----------------------------------------------------------------------------
(* Errors and text *)

NilErr == [isNil |-> TRUE, msg |-> <<>>]
NewErr(m) == [isNil |-> FALSE, msg |-> m]

\* The error a middleware unit returns: errors.New("E").
MsgE == <<69>>
ErrE == NewErr(MsgE)
\* The message a custom OnError hook puts in its record: "M".
MsgM == <<77>>
\* What a failing respond() returns: an error with the text "W".
ErrFlush == NewErr(<<87>>)
\* The errors Server.Serve and ListenAndServe return: "C" after the listener
\* was closed, "B" when the address cannot be bound.
ErrClosed == NewErr(<<67>>)
ErrBind == NewErr(<<66>>)

Digit(n) == 48 + (n % 10)
\* net/textproto.Error.Error(): fmt.Sprintf("%03d %s", e.Code, e.Msg), for
\* the three-digit codes of the model.
TextprotoErrorText(rec) ==
    <<Digit(rec.Code \div 100), Digit(rec.Code \div 10), Digit(rec.Code), 32>> \o rec.Msg

\* NewError(err, code): &textproto.Error{Msg: err.Error(), Code: code}
NewError(e, code) == [isNil |-> FALSE, Msg |-> e.msg, Code |-> code]
NilRec == [isNil |-> TRUE, Msg |-> <<>>, Code |-> 0]

\* The OnError hook New installs.
DefaultOnError(e) == {NewError(e, 500)}
\* What an application's OnError hook may return: nil or any record.
CustomCodes == {302, 404, 503}
CustomOnError(e) ==
    {NilRec} \cup {[isNil |-> FALSE, Msg |-> MsgM, Code |-> c] : c \in CustomCodes}
OnError(e) == IF onError = "default" THEN DefaultOnError(e) ELSE CustomOnError(e)

----------------------------------------------------------------------------
(* Context and Response *)

BlankCtx == [Req |-> 0, Res |-> 0, ended |-> FALSE, afterHooks |-> <<>>]
NewResponse == [Status |-> 0, finished |-> FALSE, Body |-> <<>>, flushed |-> FALSE]

\* Reset rebinding the Context and clearing ended, but keeping the hooks.
Reset_KeepsHooks(c, w, r) == [c EXCEPT !.Req = r, !.Res = w, !.ended = FALSE]

\* Context.Reset(w, r): rebind, clear ended, clear the after-hooks.
Reset(c, w, r) ==
    [c EXCEPT !.Req = r, !.Res = w, !.ended = FALSE, !.afterHooks = <<>>]
\* Context.Status(code)
Status(rs, code) == [rs EXCEPT !.Status = code]
\* Context.String(str): the text becomes the response body.
String(rs, str) == [rs EXCEPT !.Body = str]
\* Context.runAfterHooks(): the hooks in registration order.
runAfterHooks(c) == c.afterHooks
\* Response.respond(): finalize and send.
respond(rs) == [rs EXCEPT !.finished = TRUE, !.flushed = TRUE]

\* What one middleware unit may do in one invocation: set a status or leave
\* it (status 0), and then return nil ("next"), queue an after-hook, end the
\* Context, finish the response, or return the error E ("fail").
UnitStatuses == {404, 503}
Effects ==
    [kind : {"next", "after", "end", "finish", "fail"}, status : {0} \cup UnitStatuses]

UnitCtx(c, eff, u) ==
    CASE eff.kind = "after" -> [c EXCEPT !.afterHooks = Append(@, u)]
      [] eff.kind = "end" -> [c EXCEPT !.ended = TRUE]
      [] OTHER -> c
UnitRes(rs, eff) ==
    LET rs1 == IF eff.status # 0 THEN Status(rs, eff.status) ELSE rs
    IN IF eff.kind = "finish" THEN [rs1 EXCEPT !.finished = TRUE] ELSE rs1
UnitErr(eff) == IF eff.kind = "fail" THEN ErrE ELSE NilErr

----------------------------------------------------------------------------
(* Gear *)

\* Gear.Error(err): the sink after the call.
GearError(lg, e, r) ==
    IF e.isNil
    THEN Append(lg, [sink |-> IF errorLog # "nil" THEN "ErrorLog" ELSE "log",
                     err |-> e, req |-> r])
    ELSE lg

Init ==
    /\ middleware = <<>>
    /\ onError = "default"
    /\ errorLog = "nil"
    /\ handler = <<>>
    /\ pool = {}
    /\ nctx = 0
    /\ ctxs = [c \in CtxIds |-> BlankCtx]
    /\ log = <<>>
    /\ proc = "setup"
    /\ listener = "none"
    /\ serve = "none"
    /\ serveErr = NilErr
    /\ waitPc = [w \in Waiters |-> "idle"]
    /\ waitRes = [w \in Waiters |-> NilErr]
    /\ pc = [r \in Requests |-> "idle"]
    /\ idx = [r \in Requests |-> 0]
    /\ err = [r \in Requests |-> NilErr]
    /\ rctx = [r \in Requests |-> 0]
    /\ res = [r \in Requests |-> NewResponse]
    /\ calls = [r \in Requests |-> <<>>]
    /\ hooksRun = [r \in Requests |-> <<>>]
    /\ nAfter = [r \in Requests |-> 0]
    /\ nErrBody = [r \in Requests |-> 0]
    /\ chainErr = [r \in Requests |-> NilErr]
    /\ statusIn = [r \in Requests |-> 0]
    /\ nGet = [r \in Requests |-> 0]
    /\ nPut = [r \in Requests |-> 0]
    /\ putBound = [r \in Requests |-> FALSE]
    /\ queued = [r \in Requests |-> <<>>]
    /\ statusChain = [r \in Requests |-> 0]
    /\ onErrRec = [r \in Requests |-> NilRec]
    /\ nFlush = [r \in Requests |-> 0]

\* Use with a serveHandler that reads the chain of the app, as if it held
\* app.middleware instead of the slice line 96 fixed: a unit registered
\* after the start reaches the running handler.
Use_Live ==
    /\ proc # "panicked"
    /\ Len(middleware) < MaxChain
    /\ middleware' = Append(middleware, Len(middleware) + 1)
    /\ handler' = IF handler # <<>> THEN middleware' ELSE handler
    /\ UNCHANGED <<onError, errorLog, poolVars, log, srvVars, reqVars, histVars>>

\* Gear.Use(handle): the unit is named by its place in the registration.
Use ==
    /\ proc # "panicked"
    /\ Len(middleware) < MaxChain
    /\ middleware' = Append(middleware, Len(middleware) + 1)
    /\ UNCHANGED <<onError, errorLog, handler, poolVars, log, srvVars, reqVars, histVars>>

\* Gear.UseHandler(h): appends h.Serve.
UseHandler ==
    /\ proc # "panicked"
    /\ Len(middleware) < MaxChain
    /\ middleware' = Append(middleware, Len(middleware) + 1)
    /\ UNCHANGED <<onError, errorLog, handler, poolVars, log, srvVars, reqVars, histVars>>

\* The application overrides Gear.OnError before it starts the server.
SetOnError ==
    /\ proc = "setup"
    /\ onError = "default"
    /\ onError' = "custom"
    /\ UNCHANGED <<middleware, errorLog, handler, poolVars, log, srvVars, reqVars, histVars>>

\* The application sets Gear.ErrorLog before it starts the server.
SetErrorLog ==
    /\ proc = "setup"
    /\ errorLog = "nil"
    /\ errorLog' = "logger"
    /\ UNCHANGED <<middleware, onError, handler, poolVars, log, srvVars, reqVars, histVars>>

\* toServeHandler without the check of line 93: an empty chain is accepted.
ToServeHandlerPanics_Never == FALSE

\* Gear.toServeHandler(): whether it panics, and the chain it fixes.
ToServeHandlerPanics == Len(middleware) = 0
ToServeHandler == SubSeq(middleware, 1, Len(middleware))

\* Gear.Listen(addr): ListenAndServe either cannot bind and returns, or
\* serves and keeps the caller.
Listen ==
    /\ proc = "setup"
    /\ IF ToServeHandlerPanics
       THEN /\ proc' = "panicked"
            /\ UNCHANGED <<handler, listener, serve, serveErr>>
       ELSE /\ handler' = ToServeHandler
            /\ \/ /\ proc' = "blocking"
                  /\ listener' = "open"
                  /\ serve' = "serving"
                  /\ UNCHANGED serveErr
               \/ /\ proc' = "returned"
                  /\ serveErr' = ErrBind
                  /\ UNCHANGED <<listener, serve>>
    /\ UNCHANGED <<middleware, onError, errorLog, poolVars, log, waitPc, waitRes,
                   reqVars, histVars>>

\* Gear.ListenTLS(addr, certFile, keyFile)
ListenTLS ==
    /\ proc = "setup"
    /\ IF ToServeHandlerPanics
       THEN /\ proc' = "panicked"
            /\ UNCHANGED <<handler, listener, serve, serveErr>>
       ELSE /\ handler' = ToServeHandler
            /\ \/ /\ proc' = "blocking"
                  /\ listener' = "open"
                  /\ serve' = "serving"
                  /\ UNCHANGED serveErr
               \/ /\ proc' = "returned"
                  /\ serveErr' = ErrBind
                  /\ UNCHANGED <<listener, serve>>
    /\ UNCHANGED <<middleware, onError, errorLog, poolVars, log, waitPc, waitRes,
                   reqVars, histVars>>

\* Gear.Start(addr...): panics on an empty chain and when net.Listen fails;
\* otherwise the goroutine runs Server.Serve and the handle is returned.
Start ==
    /\ proc = "setup"
    /\ IF ToServeHandlerPanics
       THEN /\ proc' = "panicked"
            /\ UNCHANGED <<handler, listener, serve>>
       ELSE /\ handler' = ToServeHandler
            /\ \/ /\ proc' = "started"
                  /\ listener' = "open"
                  /\ serve' = "serving"
               \/ /\ proc' = "panicked"
                  /\ UNCHANGED <<listener, serve>>
    /\ UNCHANGED <<middleware, onError, errorLog, poolVars, log, serveErr, waitPc,
                   waitRes, reqVars, histVars>>

\* ServerListener.Close(): closes the listener.
Close ==
    /\ proc = "started"
    /\ listener = "open"
    /\ listener' = "closed"
    /\ UNCHANGED <<appVars, poolVars, log, proc, serve, serveErr, waitPc, waitRes,
                   reqVars, histVars>>

\* The goroutine written as go func() { g.Server.Serve(l) }(): the result
\* of Serve is dropped and nothing is sent on c.
AfterServe_Dropped == "done"

\* Where the goroutine goes when Server.Serve returns.
AfterServe == "send"

\* The goroutine of Start: Server.Serve returns once the listener is closed,
\* and the goroutine goes on to send the result on c.
ServeReturn ==
    /\ proc = "started"
    /\ serve = "serving"
    /\ listener = "closed"
    /\ serve' = AfterServe
    /\ serveErr' = ErrClosed
    /\ UNCHANGED <<appVars, poolVars, log, proc, listener, waitPc, waitRes,
                   reqVars, histVars>>

\* ServerListener.Wait(): the caller reaches the receive from s.c.
Wait(w) ==
    /\ proc = "started"
    /\ waitPc[w] = "idle"
    /\ waitPc' = [waitPc EXCEPT ![w] = "waiting"]
    /\ UNCHANGED <<appVars, poolVars, log, proc, listener, serve, serveErr, waitRes,
                   reqVars, histVars>>

\* The goroutine sending the result of Serve again and again.
Deliver_Resend(w) ==
    /\ serve = "send"
    /\ waitPc[w] = "waiting"
    /\ serve' = "send"
    /\ waitPc' = [waitPc EXCEPT ![w] = "returned"]
    /\ waitRes' = [waitRes EXCEPT ![w] = serveErr]
    /\ UNCHANGED <<appVars, poolVars, log, proc, listener, serveErr, reqVars, histVars>>

\* c is unbuffered: the goroutine's send and one Wait's receive happen
\* together.
Deliver(w) ==
    /\ serve = "send"
    /\ waitPc[w] = "waiting"
    /\ serve' = "done"
    /\ waitPc' = [waitPc EXCEPT ![w] = "returned"]
    /\ waitRes' = [waitRes EXCEPT ![w] = serveErr]
    /\ UNCHANGED <<appVars, poolVars, log, proc, listener, serveErr, reqVars, histVars>>

----------------------------------------------------------------------------
(* serveHandler.ServeHTTP, one call per request *)

(***************************************************************************)
(* The calls run concurrently, one goroutine per request.  Between its     *)
(* pool.Get and its pool.Put a call reads and writes its own locals, the   *)
(* Response of its request and the Context it took from the pool, so the   *)
(* steps of two calls in between commute for as long as no Context is held *)
(* by two calls, and a Context can come to be held twice only at a Get.    *)
(* The model therefore interleaves the calls at their pool operations: a   *)
(* call that holds its Context waits any time before its first unit, and   *)
(* then runs to its Put while the other calls wait, so that every order of *)
(* Gets and Puts of the calls happens.  When a call returns, its locals    *)
(* and the Response are gone: the model keeps the counts of its pool       *)
(* operations only.                                                        *)
(***************************************************************************)
InFlight(r) == pc[r] \notin {"idle", "done"}
Running(r) == InFlight(r) /\ ~(pc[r] = "chain" /\ idx[r] = 0)
Quiet(r) == \A q \in Requests \ {r} : ~Running(q)

\* The server accepts connections while Server.Serve runs on an open listener.
Accepting == listener = "open" /\ serve = "serving"

\* pool.New keeping the Context it made first and returning it again.
PoolNew_Shared == IF nctx = 0 THEN nctx + 1 ELSE nctx

\* Lines 83-85, pool.New: NewContext(g), a Context no call has seen.
PoolNew == nctx + 1
\* sync.Pool.Get: any pooled Context, or a new one from pool.New.
PoolGetChoices == pool \cup {PoolNew}
PoolAfterGet(c) == pool \ {c}
\* sync.Pool.Put
PoolAfterPut(c) == pool \cup {c}

\* Lines 172-173: ctx := h.app.pool.Get().(*Context); ctx.Reset(w, r).
\* Requests are numbered in the order the server accepts them.
Acquire(r) ==
    /\ pc[r] = "idle"
    /\ Accepting
    /\ Quiet(r)
    /\ IF r = 1 THEN TRUE ELSE pc[r - 1] # "idle"
    /\ \E c \in PoolGetChoices :
          /\ pool' = PoolAfterGet(c)
          /\ nctx' = IF c > nctx THEN c ELSE nctx
          /\ ctxs' = [ctxs EXCEPT ![c] = Reset(@, r, r)]
          /\ rctx' = [rctx EXCEPT ![r] = c]
    /\ nGet' = [nGet EXCEPT ![r] = @ + 1]
    /\ pc' = [pc EXCEPT ![r] = "chain"]
    /\ UNCHANGED <<appVars, log, srvVars, idx, err, res, calls, hooksRun, nAfter,
                   nErrBody, chainErr, statusIn, nPut, putBound, queued,
                   statusChain, onErrRec, nFlush>>

\* The loop without the break of lines 179-181.
LoopContinues_IgnoresEnded(e, c, rs, n) ==
    /\ e.isNil
    /\ n < Len(handler)

\* Lines 175-182: whether the loop goes on to the next unit after a unit
\* returned e, with n units invoked so far.
LoopContinues(e, c, rs, n) ==
    /\ e.isNil
    /\ ~(c.ended \/ rs.finished)
    /\ n < Len(handler)

\* Lines 175-182: one iteration of the loop over h.middleware.
Invoke(r) ==
    /\ pc[r] = "chain"
    /\ Quiet(r)
    /\ LET u == handler[idx[r] + 1]
           c == ctxs[rctx[r]]
       IN \E eff \in Effects :
             LET c2 == UnitCtx(c, eff, u)
                 rs2 == UnitRes(res[r], eff)
                 e2 == UnitErr(eff)
             IN /\ ctxs' = [ctxs EXCEPT ![rctx[r]] = c2]
                /\ res' = [res EXCEPT ![r] = rs2]
                /\ err' = [err EXCEPT ![r] = e2]
                /\ chainErr' = [chainErr EXCEPT ![r] = e2]
                /\ idx' = [idx EXCEPT ![r] = @ + 1]
                /\ calls' = [calls EXCEPT ![r] = Append(@, u)]
                /\ queued' = [queued EXCEPT ![r] =
                                IF eff.kind = "after" THEN Append(@, u) ELSE @]
                /\ pc' = [pc EXCEPT ![r] =
                            IF LoopContinues(e2, c2, rs2, idx[r] + 1)
                            THEN "chain" ELSE "mark"]
    /\ UNCHANGED <<appVars, pool, nctx, log, srvVars, rctx, hooksRun, nAfter,
                   nErrBody, statusIn, nGet, nPut, putBound, statusChain,
                   onErrRec, nFlush>>

\* Line 184 left out.
MarkedEnded_Skipped(c) == c

\* Line 184: the Context after ctx.ended = true.
MarkedEnded(c) == [c EXCEPT !.ended = TRUE]

\* Line 184: ctx.ended = true.
MarkEnded(r) ==
    /\ pc[r] = "mark"
    /\ ctxs' = [ctxs EXCEPT ![rctx[r]] = MarkedEnded(@)]
    /\ pc' = [pc EXCEPT ![r] = "normalize"]
    /\ UNCHANGED <<appVars, pool, nctx, log, srvVars, idx, err, rctx, res, histVars>>

\* Lines 188-191 taking a nil record to mean that the error is resolved.
ErrAfterNilRecord_Resolved(e) == NilErr

\* Lines 188-191: err after OnError returned nil; the if is skipped.
ErrAfterNilRecord(e) == e

\* Lines 187-192: the error, if any, goes through OnError.
Normalize(r) ==
    /\ pc[r] = "normalize"
    /\ IF err[r].isNil
       THEN UNCHANGED <<err, res, onErrRec>>
       ELSE \E rec \in OnError(err[r]) :
               /\ onErrRec' = [onErrRec EXCEPT ![r] = rec]
               /\ IF rec.isNil
                  THEN /\ err' = [err EXCEPT ![r] = ErrAfterNilRecord(@)]
                       /\ UNCHANGED res
                  ELSE /\ res' = [res EXCEPT ![r] = Status(@, rec.Code)]
                       /\ err' = [err EXCEPT ![r] = NewErr(TextprotoErrorText(rec))]
    /\ statusChain' = [statusChain EXCEPT ![r] = res[r].Status]
    /\ statusIn' = [statusIn EXCEPT ![r] = res'[r].Status]
    /\ pc' = [pc EXCEPT ![r] = "finish"]
    /\ UNCHANGED <<appVars, poolVars, log, srvVars, idx, rctx, calls, hooksRun,
                   nAfter, nErrBody, chainErr, nGet, nPut, putBound, queued, nFlush>>

\* Line 194 with the after-hooks run whatever err is.
RunsAfterHooks_Always(e) == TRUE
\* Line 194 with the test inverted.
RunsAfterHooks_Inverted(e) == ~e.isNil
\* Lines 197-199 left out: the status stays as it is.
ForcedStatus_Unforced(s) == s

\* Line 194: whether the after-hooks are run.
RunsAfterHooks(e) == e.isNil
\* Line 196: whether the else branch, the error path, is taken.
TakesErrorPath(e) == ~e.isNil
\* Lines 197-199: the status the error path leaves.
ForcedStatus(s) == IF s < 400 THEN 500 ELSE s
\* Line 200: whether the error path calls h.app.Error.
ReportsError(s) == s >= 500

\* Lines 207-210 left out: the call goes from the if to the release.
StepAfterOutcome_SkipsFlush == "release"

\* Line 207: what follows the if of lines 194-205.
StepAfterOutcome == "respond"

\* Lines 194-205: the after-hooks, or the error response.
AfterOrError(r) ==
    /\ pc[r] = "finish"
    /\ IF RunsAfterHooks(err[r])
       THEN /\ hooksRun' = [hooksRun EXCEPT ![r] = @ \o runAfterHooks(ctxs[rctx[r]])]
            /\ nAfter' = [nAfter EXCEPT ![r] = @ + 1]
       ELSE UNCHANGED <<hooksRun, nAfter>>
    /\ IF TakesErrorPath(err[r])
       THEN LET s == ForcedStatus(res[r].Status)
            IN /\ log' = IF ReportsError(s) THEN GearError(log, err[r], r) ELSE log
               /\ res' = [res EXCEPT ![r] = String(Status(@, s), err[r].msg)]
               /\ nErrBody' = [nErrBody EXCEPT ![r] = @ + 1]
               /\ ctxs' = [ctxs EXCEPT ![rctx[r]].afterHooks = <<>>]
       ELSE UNCHANGED <<ctxs, res, log, nErrBody>>
    /\ pc' = [pc EXCEPT ![r] = StepAfterOutcome]
    /\ UNCHANGED <<appVars, pool, nctx, srvVars, idx, err, rctx, calls, chainErr,
                   statusIn, nGet, nPut, putBound, queued, statusChain, onErrRec,
                   nFlush>>

\* Lines 207-210: err = ctx.Res.respond(), reported when it is not nil.
Respond(r) ==
    /\ pc[r] = "respond"
    /\ \E e \in {NilErr, ErrFlush} :
          /\ err' = [err EXCEPT ![r] = e]
          /\ log' = IF ~e.isNil THEN GearError(log, e, r) ELSE log
    /\ res' = [res EXCEPT ![r] = respond(@)]
    /\ nFlush' = [nFlush EXCEPT ![r] = @ + 1]
    /\ pc' = [pc EXCEPT ![r] = "release"]
    /\ UNCHANGED <<appVars, poolVars, srvVars, idx, rctx, calls, hooksRun, nAfter,
                   nErrBody, chainErr, statusIn, nGet, nPut, putBound, queued,
                   statusChain, onErrRec>>

\* Line 212 left out: the Context goes back bound to its request.
ReleaseBinding_Keeps(r) == r

\* Line 212: the bindings ctx.Reset is given before the Put.
ReleaseBinding(r) == 0

\* Lines 212-213: ctx.Reset(nil, nil); h.app.pool.Put(ctx); and the call
\* returns.
Release(r) ==
    /\ pc[r] = "release"
    /\ LET c2 == Reset(ctxs[rctx[r]], ReleaseBinding(r), ReleaseBinding(r))
       IN /\ ctxs' = [ctxs EXCEPT ![rctx[r]] = c2]
          /\ putBound' = [putBound EXCEPT ![r] = @ \/ c2.Req # 0 \/ c2.Res # 0]
    /\ pool' = PoolAfterPut(rctx[r])
    /\ nPut' = [nPut EXCEPT ![r] = @ + 1]
    /\ pc' = [pc EXCEPT ![r] = "done"]
    /\ idx' = [idx EXCEPT ![r] = 0]
    /\ err' = [err EXCEPT ![r] = NilErr]
    /\ res' = [res EXCEPT ![r] = NewResponse]
    /\ calls' = [calls EXCEPT ![r] = <<>>]
    /\ hooksRun' = [hooksRun EXCEPT ![r] = <<>>]
    /\ nAfter' = [nAfter EXCEPT ![r] = 0]
    /\ nErrBody' = [nErrBody EXCEPT ![r] = 0]
    /\ chainErr' = [chainErr EXCEPT ![r] = NilErr]
    /\ statusIn' = [statusIn EXCEPT ![r] = 0]
    /\ queued' = [queued EXCEPT ![r] = <<>>]
    /\ statusChain' = [statusChain EXCEPT ![r] = 0]
    /\ onErrRec' = [onErrRec EXCEPT ![r] = NilRec]
    /\ nFlush' = [nFlush EXCEPT ![r] = 0]
    /\ UNCHANGED <<appVars, nctx, log, srvVars, rctx, nGet>>

----------------------------------------------------------------------------
(* Specifications *)

Setup == Use \/ UseHandler \/ SetOnError \/ SetErrorLog
Startup == Listen \/ ListenTLS \/ Start
Handle == Close \/ ServeReturn \/ (\E w \in Waiters : Wait(w) \/ Deliver(w))
Dispatch ==
    \E r \in Requests :
        \/ Acquire(r)
        \/ Invoke(r)
        \/ MarkEnded(r)
        \/ Normalize(r)
        \/ AfterOrError(r)
        \/ Respond(r)
        \/ Release(r)

\* The server and the requests it handles.  ServeHTTP reads nothing of the
\* listener or of the handle, whose operations are in FrontendSpec.
Next == Setup \/ Startup \/ Dispatch
Spec == Init /\ [][Next]_vars

\* The server and its handle, before any request: the goroutine of Start is
\* scheduled, and a send meets a waiting receive.
FrontendNext == Setup \/ Startup \/ Handle
FrontendSpec ==
    /\ Init
    /\ [][FrontendNext]_vars
    /\ WF_vars(ServeReturn)
    /\ WF_vars(\E w \in Waiters : Deliver(w))

----------------------------------------------------------------------------
(* Properties *)

IsIncreasing(q) == \A j \in 1..Len(q), k \in 1..Len(q) : j < k => q[j] < q[k]
AfterPath(r) == pc[r] \in {"respond", "release"}
BeforePath(r) == pc[r] \in {"chain", "mark", "normalize", "finish"}
\* The sink holds an entry of request r whose error has the text m.
Logged(r, m) == \E k \in 1..Len(log) : log[k].req = r /\ log[k].err.msg = m

\* C1: ServeHTTP invokes the units of the chain in registration order, and
\* once a unit has returned an error, or has returned nil with ctx.ended set
\* or the response finished, it invokes no further unit for that request.
StopSignal(r) ==
    /\ InFlight(r)
    /\ calls[r] # <<>>
    /\ ~err[r].isNil \/ ctxs[rctx[r]].ended \/ res[r].finished
C1_ChainInOrder ==
    /\ [](\A r \in Requests :
            /\ Len(calls[r]) <= Len(handler)
            /\ calls[r] = SubSeq(middleware, 1, Len(calls[r])))
    /\ [][\A r \in Requests :
            StopSignal(r) => calls'[r] = calls[r] \/ pc'[r] = "done"]_vars
\* A chain of two units is cut short after the first, which ended the Context.
C1_Witness ==
    \E r \in Requests :
        /\ pc[r] = "mark"
        /\ Len(handler) = 2
        /\ calls[r] = <<1>>
        /\ err[r].isNil
        /\ ctxs[rctx[r]].ended

\* C2: for every request exactly one of the two outcomes has happened when
\* the response is flushed: the after-hooks were run, or the error message
\* was written as the body; neither has happened before line 194.
C2_ExactlyOneOutcome ==
    \A r \in Requests :
        /\ BeforePath(r) => nAfter[r] = 0 /\ nErrBody[r] = 0
        /\ AfterPath(r) =>
              \/ nAfter[r] = 1 /\ nErrBody[r] = 0
              \/ nAfter[r] = 0 /\ nErrBody[r] = 1
        /\ pc[r] = "respond" /\ nErrBody[r] = 1 =>
              ~err[r].isNil /\ res[r].Body = err[r].msg
C2_Witness ==
    \E r \in Requests :
        /\ pc[r] = "respond"
        /\ nErrBody[r] = 1
        /\ nAfter[r] = 0
        /\ res[r].Body = MsgE

\* C3: when the chain ends with no error, cut short or not, the after-hooks
\* are run in registration order, exactly once, after the last unit and
\* before the response is flushed, and the error path is not taken.
C3_AfterHooksOnSuccess ==
    \A r \in Requests :
        /\ BeforePath(r) => nAfter[r] = 0 /\ hooksRun[r] = <<>>
        /\ AfterPath(r) /\ chainErr[r].isNil =>
              /\ nAfter[r] = 1
              /\ nErrBody[r] = 0
              /\ hooksRun[r] = ctxs[rctx[r]].afterHooks
              /\ IsIncreasing(hooksRun[r])
              /\ pc[r] = "respond" => ~res[r].flushed
C3_Witness ==
    \E r \in Requests :
        /\ pc[r] = "respond"
        /\ chainErr[r].isNil
        /\ calls[r] = <<1, 2>>
        /\ hooksRun[r] = <<1, 2>>

\* C4: when the chain produced an error, the after-hooks are not run and the
\* queued hooks are discarded, and the status the response is flushed with
\* is at least 500 whenever it was below 400 when the error path was entered.
C4_ErrorPath ==
    \A r \in Requests :
        AfterPath(r) /\ ~chainErr[r].isNil =>
            /\ nAfter[r] = 0
            /\ hooksRun[r] = <<>>
            /\ ctxs[rctx[r]].afterHooks = <<>>
            /\ nErrBody[r] = 1
            /\ statusIn[r] < 400 => res[r].Status >= 500
            /\ pc[r] = "release" => res[r].flushed
C4_Witness ==
    \E r \in Requests :
        /\ pc[r] = "release"
        /\ ~chainErr[r].isNil
        /\ statusIn[r] = 302
        /\ res[r].Status = 500
        /\ res[r].flushed

\* C5: on the error path the error reaches the error-logging sink if and
\* only if the final status is 500 or above.
C5_LoggedIffServerError ==
    \A r \in Requests :
        pc[r] = "respond" /\ nErrBody[r] = 1 =>
            (Logged(r, err[r].msg) <=> res[r].Status >= 500)

\* C6: every request takes one Context from the pool and puts one back, and
\* a Context in the pool is bound to no request and to no response.
C6_OneGetOnePut ==
    /\ \A r \in Requests :
          /\ pc[r] = "idle" => nGet[r] = 0 /\ nPut[r] = 0
          /\ InFlight(r) => nGet[r] = 1 /\ nPut[r] = 0
          /\ pc[r] = "done" => nGet[r] = 1 /\ nPut[r] = 1 /\ ~putBound[r]
    /\ \A c \in pool : ctxs[c].Req = 0 /\ ctxs[c].Res = 0
C6_Witness ==
    \E r \in Requests : pc[r] = "done" /\ rctx[r] \in pool

\* C7: no Context is held by two requests in flight: between a request's Get
\* and its Put the Context is not in the pool and no other request holds it.
C7_ExclusiveContext ==
    \A r \in Requests :
        InFlight(r) =>
            /\ rctx[r] \notin pool
            /\ ctxs[rctx[r]].Req = r
            /\ \A q \in Requests \ {r} : InFlight(q) => rctx[q] # rctx[r]
C7_Witness ==
    \E r \in Requests, q \in Requests :
        /\ r # q
        /\ InFlight(r)
        /\ InFlight(q)
        /\ pc[q] = "release"

\* C8: with the default OnError hook, a request in which a unit returned the
\* error E ends with status 500, a body equal to E's message, the error in
\* the sink, and no after-hook run.
C8_DefaultErrorResponse ==
    \A r \in Requests :
        onError = "default" /\ pc[r] = "release" /\ ~chainErr[r].isNil =>
            /\ res[r].Status = 500
            /\ res[r].Body = chainErr[r].msg
            /\ \E k \in 1..Len(log) : log[k].req = r
            /\ nAfter[r] = 0

\* C9: starting the server with no middleware registered panics before a
\* listener is bound or a request accepted; an empty chain is never served.
C9_EmptyChainPanics ==
    /\ proc # "setup" /\ handler = <<>> =>
          /\ proc = "panicked"
          /\ listener = "none"
          /\ serve = "none"
          /\ \A r \in Requests : pc[r] = "idle"
    /\ listener # "none" \/ (\E r \in Requests : pc[r] # "idle") => Len(handler) >= 1
C9_Witness == proc = "panicked" /\ middleware = <<>> /\ handler = <<>>

\* C10: after Start and Close with no request, a Wait eventually returns the
\* error Server.Serve ended with, whether it was called before or after Close.
C10_WaitReturns ==
    (listener = "closed" /\ \E w \in Waiters : waitPc[w] = "waiting")
        ~> (\E w \in Waiters : waitPc[w] = "returned" /\ waitRes[w] = ErrClosed)
C10_Witness ==
    /\ listener = "closed"
    /\ \E w \in Waiters : waitPc[w] = "returned" /\ waitRes[w] = ErrClosed
    /\ \A r \in Requests : pc[r] = "idle"

\* C11: whenever respond fails, the failure is reported to the error-logging
\* sink, and the Context is still reset and put back into the pool.
C11_FlushFailureLogged ==
    \A r \in Requests :
        pc[r] = "release" /\ ~err[r].isNil =>
            /\ Logged(r, err[r].msg)
            /\ ENABLED Release(r)

\* C12: when a unit returned an error and OnError returned nil, the request
\* still takes the error path: OnError's result leaves the status as the
\* chain left it, the after-hooks are not run, and the message of the unit's
\* error is written as the body.
C12_NilRecordErrorPath ==
    \A r \in Requests :
        AfterPath(r) /\ ~chainErr[r].isNil /\ onErrRec[r].isNil =>
            /\ statusIn[r] = statusChain[r]
            /\ nAfter[r] = 0
            /\ hooksRun[r] = <<>>
            /\ nErrBody[r] = 1
            /\ res[r].Body = chainErr[r].msg
C12_Witness ==
    \E r \in Requests :
        /\ pc[r] = "release"
        /\ onError = "custom"
        /\ ~chainErr[r].isNil
        /\ onErrRec[r].isNil
        /\ queued[r] # <<>>
        /\ statusIn[r] = 404
        /\ res[r].Body = MsgE

\* C13: when OnError returned a record with code c, the response is flushed
\* with status c if c is 400 or above and 500 if c is below 400, and with the
\* record's message as the body; the status of a request that ended in error
\* is never below 400.
C13_RecordDecidesResponse ==
    \A r \in Requests :
        /\ AfterPath(r) /\ ~onErrRec[r].isNil =>
              /\ res[r].Status = IF onErrRec[r].Code >= 400 THEN onErrRec[r].Code ELSE 500
              /\ res[r].Body = onErrRec[r].Msg
        /\ AfterPath(r) /\ ~chainErr[r].isNil => res[r].Status >= 400

\* C14: ctx.ended is true from line 184, right after the loop over the
\* chain, through OnError, the after-hooks or the error body, and the flush,
\* until the Context is reset for its release.
C14_EndedAfterChain ==
    \A r \in Requests :
        pc[r] \in {"normalize", "finish", "respond", "release"} => ctxs[rctx[r]].ended
\* The loop was left on an error of the second unit: no unit ended the Context.
C14_Witness ==
    \E r \in Requests :
        /\ pc[r] = "release"
        /\ calls[r] = <<1, 2>>
        /\ ~chainErr[r].isNil
        /\ ctxs[rctx[r]].ended

\* C15: no state of a request leaks through the pool: every request starts
\* its chain with ended false and no after-hook queued, the hooks in its
\* Context are the ones its own units queued, and the hooks run for it are
\* those and no others, whatever Context it reuses.
C15_NoLeakThroughPool ==
    \A r \in Requests :
        /\ pc[r] = "chain" /\ idx[r] = 0 =>
              ~ctxs[rctx[r]].ended /\ ctxs[rctx[r]].afterHooks = <<>>
        /\ BeforePath(r) => ctxs[rctx[r]].afterHooks = queued[r]
        /\ InFlight(r) => hooksRun[r] \in {<<>>, queued[r]}
\* The second request reuses the Context of the first and runs its own hook.
C15_Witness ==
    \E r \in Requests, q \in Requests :
        /\ pc[q] = "done"
        /\ pc[r] = "respond"
        /\ rctx[r] = rctx[q]
        /\ queued[r] # <<>>
        /\ hooksRun[r] = queued[r]

\* C16: the steps of a request happen in one order, none of them twice:
\* acquire and reset, chain, mark ended, error normalization, after-hooks or
\* error body, one flush, reset and release; the response is flushed exactly
\* once, and the Context is not in the pool before the flush is done.
StepOrder ==
    { <<"idle", "chain">>, <<"chain", "mark">>, <<"mark", "normalize">>,
      <<"normalize", "finish">>, <<"finish", "respond">>,
      <<"respond", "release">>, <<"release", "done">> }
C16_StepsInOrder ==
    /\ [](\A r \in Requests :
            /\ pc[r] \in {"chain", "mark", "normalize", "finish", "respond"} =>
                  nFlush[r] = 0 /\ ~res[r].flushed
            /\ pc[r] = "release" => nFlush[r] = 1 /\ res[r].flushed
            /\ InFlight(r) => rctx[r] \notin pool)
    /\ [][\A r \in Requests :
            /\ pc'[r] # pc[r] => <<pc[r], pc'[r]>> \in StepOrder
            /\ nPut'[r] # nPut[r] => nFlush[r] = 1 /\ res[r].flushed]_vars
C16_Witness ==
    \E r \in Requests :
        /\ pc[r] = "done"
        /\ nGet[r] = 1
        /\ nPut[r] = 1
        /\ rctx[r] \in pool

\* C17: the chain a started server runs is the one toServeHandler fixed: it
\* does not change afterwards, and a unit registered later with Use or
\* UseHandler is never invoked by the handler.
C17_ChainFixedAtStart ==
    /\ [][handler # <<>> => handler' = handler]_vars
    /\ [](\A r \in Requests :
            /\ Len(calls[r]) <= Len(handler)
            /\ calls[r] = SubSeq(handler, 1, Len(calls[r]))
            /\ pc[r] = "chain" => idx[r] < Len(handler))
\* A unit was registered after the start, and a request got through the
\* whole chain of the handler without invoking it.
C17_Witness ==
    \E r \in Requests :
        /\ Len(handler) >= 1
        /\ Len(middleware) > Len(handler)
        /\ pc[r] = "mark"
        /\ calls[r] = handler
        /\ err[r].isNil
        /\ ~ctxs[rctx[r]].ended
        /\ ~res[r].finished

\* C18: the result of Server.Serve is sent on the channel once: at most one
\* Wait returns, with that result, and once it has, a second Wait on the same
\* handle stays blocked.
Returned == {w \in Waiters : waitPc[w] = "returned"}
C18_DeliveredOnce ==
    /\ [](/\ Cardinality(Returned) <= 1
          /\ \A w \in Returned : waitRes[w] = ErrClosed /\ waitRes[w] = serveErr
          /\ serve = "done" <=> Cardinality(Returned) = 1)
    /\ [][\A w \in Waiters :
            serve = "done" /\ waitPc[w] = "waiting" => waitPc'[w] = "waiting"]_vars
C18_Witness ==
    /\ serve = "done"
    /\ \E w \in Waiters, v \in Waiters :
          /\ waitPc[w] = "returned"
          /\ waitPc[v] = "waiting"

\* C19: the goroutine of Start ends only through a Wait: it is done only
\* when a Wait has received its result, and with no Wait waiting it stays at
\* the send on the unbuffered channel.
C19_GoroutineNeedsWait ==
    /\ [](serve = "done" => Returned # {})
    /\ [][serve = "send" /\ (\A w \in Waiters : waitPc[w] # "waiting")
            => serve' = "send"]_vars
\* Close was called, Serve returned, and no Wait was ever called.
C19_Witness ==
    /\ listener = "closed"
    /\ serve = "send"
    /\ \A w \in Waiters : waitPc[w] = "idle"

====
